---- MODULE Spec2Model ----
(***************************************************************************)
(* Model of ImportCSVAsMesh.execute (src/__init__.py): the scan of a CSV   *)
(* file through csv.DictReader, the per-row validation and float parsing,  *)
(* the two failure returns, and the creation of the mesh and of the labels.*)
(*                                                                         *)
(* Text is modelled as sequences of one-character strings so that strip(), *)
(* float() and str() are computed rather than assumed.  A float is a       *)
(* record: [kind |-> "fin", m, e] for the decimal m * 10^e (normalised: m  *)
(* has no trailing zero, zero is m = 0, e = 0), [kind |-> "inf", m |-> +-1]*)
(* and [kind |-> "nan"].                                                   *)
(***************************************************************************)
EXTENDS Integers, Sequences, FiniteSets, TLC

\* ------------------------------------------------------------------ text

Whitespace == {" ", "\t", "\r", "\n"}

Digits == <<"0", "1", "2", "3", "4", "5", "6", "7", "8", "9">>

IsDigit(c) == \E d \in 1..10 : Digits[d] = c

DigitVal(c) == (CHOOSE d \in 1..10 : Digits[d] = c) - 1

Lower(c) ==
    CASE c = "A" -> "a" [] c = "E" -> "e" [] c = "F" -> "f"
      [] c = "I" -> "i" [] c = "N" -> "n" [] c = "T" -> "t"
      [] c = "Y" -> "y" [] OTHER -> c

LowerStr(s) == [i \in 1..Len(s) |-> Lower(s[i])]

\* str.strip(): drop leading and trailing whitespace
RECURSIVE LStrip(_)
LStrip(s) == IF s # <<>> /\ Head(s) \in Whitespace THEN LStrip(Tail(s)) ELSE s

RECURSIVE RStrip(_)
RStrip(s) ==
    IF s # <<>> /\ s[Len(s)] \in Whitespace
    THEN RStrip(SubSeq(s, 1, Len(s) - 1)) ELSE s

Strip(s) == RStrip(LStrip(s))

\* ----------------------------------------------------------------- float

FloatMaxExp10 == 308

RECURSIVE Normalize(_, _)
Normalize(m, e) ==
    IF m = 0 THEN [kind |-> "fin", m |-> 0, e |-> 0]
    ELSE IF m % 10 = 0 THEN Normalize(m \div 10, e + 1)
    ELSE [kind |-> "fin", m |-> m, e |-> e]

Inf(sign) == [kind |-> "inf", m |-> sign, e |-> 0]

NaN == [kind |-> "nan", m |-> 0, e |-> 0]

RECURSIVE Pow10(_)
Pow10(n) == IF n = 0 THEN 1 ELSE 10 * Pow10(n - 1)

\* number of leading decimal digits of s
RECURSIVE LeadingDigits(_)
LeadingDigits(s) ==
    IF s # <<>> /\ IsDigit(Head(s)) THEN 1 + LeadingDigits(Tail(s)) ELSE 0

\* value of a run of decimal digits
RECURSIVE DigitsVal(_)
DigitsVal(s) ==
    IF s = <<>> THEN 0
    ELSE 10 * DigitsVal(SubSeq(s, 1, Len(s) - 1)) + DigitVal(s[Len(s)])

RECURSIVE NumDigits(_)
NumDigits(n) == IF n < 10 THEN 1 ELSE 1 + NumDigits(n \div 10)

Drop(s, n) == SubSeq(s, n + 1, Len(s))

ValueError == [ok |-> FALSE, val |-> NaN]

Parsed(v) == [ok |-> TRUE, val |-> v]

\* the exponent part of a decimal literal: "" or e[+-]digits
ParseExponent(s) ==
    IF s = <<>> THEN [ok |-> TRUE, exp |-> 0]
    ELSE IF Lower(Head(s)) # "e" THEN [ok |-> FALSE, exp |-> 0]
    ELSE LET r    == Tail(s)
             neg  == r # <<>> /\ Head(r) = "-"
             d    == IF r # <<>> /\ Head(r) \in {"+", "-"} THEN Tail(r) ELSE r
         IN  IF d = <<>> \/ LeadingDigits(d) # Len(d)
             THEN [ok |-> FALSE, exp |-> 0]
             ELSE [ok |-> TRUE,
                   exp |-> IF neg THEN 0 - DigitsVal(d) ELSE DigitsVal(d)]

\* an unsigned decimal literal: digits[.digits][exponent] or .digits[exponent]
ParseDecimal(s, sign) ==
    LET n1     == LeadingDigits(s)
        after1 == Drop(s, n1)
        dot    == after1 # <<>> /\ Head(after1) = "."
        fr     == IF dot THEN Tail(after1) ELSE after1
        n2     == IF dot THEN LeadingDigits(fr) ELSE 0
        after2 == Drop(fr, n2)
        ex     == ParseExponent(after2)
        mant   == DigitsVal(SubSeq(s, 1, n1) \o SubSeq(fr, 1, n2))
    IN  IF n1 + n2 = 0 \/ ~ex.ok THEN ValueError
        ELSE IF mant = 0 THEN Parsed(Normalize(0, 0))
        ELSE IF NumDigits(mant) + ex.exp - n2 > FloatMaxExp10 + 1
             THEN Parsed(Inf(sign))
        ELSE Parsed(Normalize(sign * mant, ex.exp - n2))

InfWords == { <<"i", "n", "f">>, <<"i", "n", "f", "i", "n", "i", "t", "y">> }

NanWord == <<"n", "a", "n">>

\* variant: text that is not a decimal literal reads as 0.0 (as C's atof)
ParseFloat_Lenient(s) ==
    LET t    == Strip(s)
        sgn  == IF t # <<>> /\ Head(t) = "-" THEN 0 - 1 ELSE 1
        body == IF t # <<>> /\ Head(t) \in {"+", "-"} THEN Tail(t) ELSE t
        r    == ParseDecimal(body, sgn)
    IN  IF body = <<>> THEN ValueError
        ELSE IF LowerStr(body) \in InfWords THEN Parsed(Inf(sgn))
        ELSE IF LowerStr(body) = NanWord THEN Parsed(NaN)
        ELSE IF r.ok THEN r ELSE Parsed(Normalize(0, 0))

\* float(str): surrounding whitespace ignored, optional sign, then a decimal
\* literal, inf, infinity or nan (case-insensitive); ValueError otherwise
ParseFloat(s) ==
    LET t    == Strip(s)
        sgn  == IF t # <<>> /\ Head(t) = "-" THEN 0 - 1 ELSE 1
        body == IF t # <<>> /\ Head(t) \in {"+", "-"} THEN Tail(t) ELSE t
    IN  IF body = <<>> THEN ValueError
        ELSE IF LowerStr(body) \in InfWords THEN Parsed(Inf(sgn))
        ELSE IF LowerStr(body) = NanWord THEN Parsed(NaN)
        ELSE ParseDecimal(body, sgn)

IsFinite(v) == v.kind = "fin"

\* float addition (exact on the decimals the model represents)
FloatAdd(a, b) ==
    IF a.kind = "nan" \/ b.kind = "nan" THEN NaN
    ELSE IF a.kind = "inf" /\ b.kind = "inf"
         THEN IF a.m = b.m THEN a ELSE NaN
    ELSE IF a.kind = "inf" THEN a
    ELSE IF b.kind = "inf" THEN b
    ELSE LET lo == IF a.e < b.e THEN a.e ELSE b.e
         IN  Normalize(a.m * Pow10(a.e - lo) + b.m * Pow10(b.e - lo), lo)

\* str(int) for a positive integer
RECURSIVE IntToStr(_)
IntToStr(n) ==
    IF n < 10 THEN <<Digits[n + 1]>>
    ELSE IntToStr(n \div 10) \o <<Digits[(n % 10) + 1]>>

\* ------------------------------------------------------- inputs (bounded)

\* most physical lines an input file has, the header line included
MaxLines == 4

Txt(s) == [some |-> TRUE, s |-> s]

NoneVal == [some |-> FALSE, s |-> <<>>]

F_1_0   == <<"1", ".", "0">>
F_2_0   == <<"2", ".", "0">>
F_3_0   == <<"3", ".", "0">>
F_4     == <<"4">>
F_5sp   == <<" ", "5", " ">>
F_m6e1  == <<"-", "6", "0", "e", "-", "1">>
F_empty == <<>>
F_blank == <<" ", "\t">>
F_abc   == <<"a", "b", "c">>
F_inf   == <<"i", "n", "f">>
F_NaN   == <<"N", "a", "N">>
F_1e999 == <<"1", "e", "9", "9", "9">>
F_note  == <<"n", "/", "a">>

BlankLine == <<>>

R_valid   == <<F_1_0, F_2_0, F_3_0>>
R_valid2  == <<F_4, F_5sp, F_m6e1, F_note>>
R_emptyY  == <<F_1_0, F_empty, F_3_0>>
R_blankZ  == <<F_1_0, F_2_0, F_blank>>
R_short   == <<F_1_0, F_2_0>>
R_nonnum  == <<F_abc, F_2_0, F_3_0>>
R_inf     == <<F_1_0, F_inf, F_1e999>>
R_nan     == <<F_NaN, F_2_0, F_3_0>>

\* what csv.reader yields for one physical line after the header
DataLines ==
    { BlankLine, R_valid, R_valid2, R_emptyY, R_blankZ, R_short, R_nonnum,
      R_inf, R_nan }

H_std  == <<"X [m]", "Y [m]", "Z [m]">>
H_ext  == <<"X [m]", "Y [m]", "Z [m]", "Note">>
H_rev  == <<"Z [m]", "Y [m]", "X [m]">>
H_noZ  == <<"X [m]", "Y [m]">>

\* what csv.reader yields for the first physical line
HeaderLines == { H_std, H_ext, H_rev, H_noZ, BlankLine }

RECURSIVE FilesOfLen(_)
FilesOfLen(n) ==
    IF n = 0 THEN { <<>> }
    ELSE IF n = 1 THEN { <<h>> : h \in HeaderLines }
    ELSE { Append(f, l) : f \in FilesOfLen(n - 1), l \in DataLines }

Files == UNION { FilesOfLen(n) : n \in 0..MaxLines }

Fin(m, e) == [kind |-> "fin", m |-> m, e |-> e]

\* operator properties; the first is the add-on's default configuration
DefaultConfig ==
    [ x_column_name |-> "X [m]", y_column_name |-> "Y [m]",
      z_column_name |-> "Z [m]", show_labels |-> FALSE,
      label_size |-> Fin(1, 0 - 1), label_orientation |-> "VERTICAL",
      label_alignment |-> "CENTER", label_offset_z |-> Fin(5, 0 - 2) ]

Configs ==
    { DefaultConfig,
      [DefaultConfig EXCEPT !.show_labels = TRUE],
      [DefaultConfig EXCEPT !.show_labels = TRUE,
                            !.label_orientation = "HORIZONTAL",
                            !.label_alignment = "RIGHT",
                            !.label_offset_z = Fin(15, 0 - 1)],
      [DefaultConfig EXCEPT !.x_column_name = "Easting"] }

\* ------------------------------------------------------------------ state

VARIABLES
    file,           \* the input file: the sequence of its physical lines
    cfg,            \* the operator's properties (self.*)
    pc,             \* position in execute()
    io,             \* "ok", "open_failed" or "read_failed"
    handle,         \* csvfile: "unopened", "open" or "closed"
    fieldnames,     \* DictReader._fieldnames
    pos,            \* reader.line_num: physical lines consumed so far
    line_num,       \* the value enumerate(reader, start=2) yields next
    verts,          \* list of (x, y, z)
    skipped_lines,  \* list of line numbers
    objects,        \* objects linked to context.collection, in order
    idx,            \* enumerate(verts) index of the label loop
    report,         \* the self.report() call of this invocation
    result          \* return value of execute()

vars == << file, cfg, pc, io, handle, fieldnames, pos, line_num, verts,
           skipped_lines, objects, idx, report, result >>

NoReport == [level |-> "NONE", msg |-> "", points |-> 0, total |-> 0,
             skipped |-> <<>>]

UnsetNames == [set |-> FALSE, names |-> <<>>]

Init ==
    /\ file \in Files
    /\ cfg \in Configs
    /\ pc = "start"
    /\ io = "ok"
    /\ handle = "unopened"
    /\ fieldnames = UnsetNames
    /\ pos = 0
    /\ line_num = 2
    /\ verts = <<>>
    /\ skipped_lines = <<>>
    /\ objects = <<>>
    /\ idx = 0
    /\ report = NoReport
    /\ result = "none"

\* ------------------------------------------------------------ DictReader

\* DictReader.fieldnames: the first call consumes the first physical line
HeaderRead(names, p, f) ==
    IF ~names.set /\ p = 0 /\ Len(f) > 0
    THEN [names |-> [set |-> TRUE, names |-> f[1]], pos |-> 1]
    ELSE [names |-> names, pos |-> p]

\* DictReader.__next__ skips rows that are []: index of the next physical
\* line after p that holds a record, 0 when the reader is exhausted
NextRecord(f, p) ==
    LET cand == { i \in (p + 1)..Len(f) : f[i] # <<>> }
    IN  IF cand = {} THEN 0 ELSE CHOOSE i \in cand : \A j \in cand : i <= j

\* dict(zip(fieldnames, row)), then restval None for the fieldnames beyond
\* the row (the restkey entry of a long row is keyed by None, never by a name)
MakeRow(names, row) ==
    [ k \in { names[i] : i \in 1..Len(names) } |->
        LET at == { i \in 1..Len(names) : names[i] = k }
            hi == CHOOSE i \in at : \A j \in at : j <= i
        IN  IF hi > Len(row) THEN NoneVal ELSE Txt(row[hi]) ]

\* dict.get(key)
RowGet(row, key) == IF key \in DOMAIN row THEN row[key] ELSE NoneVal

\* ------------------------------------------------------------- execute()

\* line 90: a coordinate is missing when it is None or blank after strip()
IsMissing(v) == ~v.some \/ Strip(v.s) = <<>>

\* variant: the row is dropped without being recorded
SkipLine_Dropped(skipped, n) == skipped

\* variant: the line number is inserted at the front of the list
SkipLine_Front(skipped, n) == <<n>> \o skipped

\* lines 92 and 100: skipped_lines.append(line_num)
SkipLine(skipped, n) == Append(skipped, n)

\* variant: the y and z values are exchanged
AddVert_Swapped(vs, x, y, z) == Append(vs, <<x, z, y>>)

\* line 97: verts.append((x, y, z))
AddVert(vs, x, y, z) == Append(vs, <<x, y, z>>)

\* lines 86-101: the body of the loop for one row
ProcessRow(row, c, n, vs, skipped) ==
    LET x_val == RowGet(row, c.x_column_name)
        y_val == RowGet(row, c.y_column_name)
        z_val == RowGet(row, c.z_column_name)
    IN  IF IsMissing(x_val) \/ IsMissing(y_val) \/ IsMissing(z_val)
        THEN [verts |-> vs, skipped |-> SkipLine(skipped, n)]
        ELSE LET x == ParseFloat(Strip(x_val.s))
                 y == ParseFloat(Strip(y_val.s))
                 z == ParseFloat(Strip(z_val.s))
             IN  IF x.ok /\ y.ok /\ z.ok
                 THEN [verts |-> AddVert(vs, x.val, y.val, z.val),
                       skipped |-> skipped]
                 ELSE [verts |-> vs, skipped |-> SkipLine(skipped, n)]

\* line 83: open() succeeds
Open ==
    /\ pc = "start"
    /\ handle' = "open"
    /\ pc' = "scan"
    /\ UNCHANGED << file, cfg, io, fieldnames, pos, line_num, verts,
                    skipped_lines, objects, idx, report, result >>

\* lines 102-104 taken from the with-statement: what the handler does once
\* the file object has been released
FailedToRead(h) ==
    /\ handle' = h
    /\ report' = [NoReport EXCEPT !.level = "ERROR",
                                  !.msg = "Failed to read CSV"]
    /\ result' = "CANCELLED"
    /\ pc' = "done"

\* line 83 raises (missing or unreadable path): lines 102-104
OpenFail ==
    /\ pc = "start"
    /\ io' = "open_failed"
    /\ FailedToRead(handle)
    /\ UNCHANGED << file, cfg, fieldnames, pos, line_num, verts,
                    skipped_lines, objects, idx >>

\* variant: the file is opened without a with-statement and never closed
WithExit_Leak(h) == h

\* the handle state the with-statement leaves behind
WithExit(h) == "closed"

\* lines 110-114: the vertex-only mesh object
MeshObject(vs) ==
    [type |-> "MESH", name |-> "CSV_Mesh", verts |-> vs, edges |-> <<>>,
     faces |-> <<>>]

\* variant: the points collected before the read error are kept as a mesh
ReadFail_Partial ==
    /\ pc = "scan"
    /\ io' = "read_failed"
    /\ FailedToRead(WithExit(handle))
    /\ objects' = IF verts = <<>> THEN objects
                  ELSE Append(objects, MeshObject(verts))
    /\ UNCHANGED << file, cfg, fieldnames, pos, line_num, verts,
                    skipped_lines, idx >>

\* line 85 raises while reading (I/O error, undecodable bytes, csv.Error):
\* the with-statement closes the file, then lines 102-104
ReadFail ==
    /\ pc = "scan"
    /\ io' = "read_failed"
    /\ FailedToRead(WithExit(handle))
    /\ UNCHANGED << file, cfg, fieldnames, pos, line_num, verts,
                    skipped_lines, objects, idx >>

\* one iteration of the loop of line 85: DictReader.__next__ yields a row
\* and lines 86-101 handle it
NextRow ==
    /\ pc = "scan"
    /\ LET hr  == HeaderRead(fieldnames, pos, file)
           at  == NextRecord(file, hr.pos)
       IN  /\ at # 0
           /\ LET row == MakeRow(hr.names.names, file[at])
                  out == ProcessRow(row, cfg, line_num, verts, skipped_lines)
              IN  /\ verts' = out.verts
                  /\ skipped_lines' = out.skipped
           /\ fieldnames' = hr.names
           /\ pos' = at
           /\ line_num' = line_num + 1
    /\ UNCHANGED << file, cfg, pc, io, handle, objects, idx, report, result >>

\* the reader is exhausted: the loop ends and the with-statement closes
\* the file
EndOfFile ==
    /\ pc = "scan"
    /\ LET hr == HeaderRead(fieldnames, pos, file)
       IN  /\ NextRecord(file, hr.pos) = 0
           /\ fieldnames' = hr.names
    /\ pos' = Len(file)
    /\ handle' = WithExit(handle)
    /\ pc' = "check"
    /\ UNCHANGED << file, cfg, io, line_num, verts, skipped_lines, objects,
                    idx, report, result >>

\* variant: the test compares the list with None and never succeeds
EmptyResult_Never(vs) == FALSE

\* line 106: not verts
EmptyResult(vs) == vs = <<>>

\* lines 106-108
NoValidPoints ==
    /\ pc = "check"
    /\ EmptyResult(verts)
    /\ report' = [NoReport EXCEPT !.level = "ERROR",
                                  !.msg = "No valid points found in CSV."]
    /\ result' = "CANCELLED"
    /\ pc' = "done"
    /\ UNCHANGED << file, cfg, io, handle, fieldnames, pos, line_num, verts,
                    skipped_lines, objects, idx >>

\* lines 106 and 110-117
CreateMesh ==
    /\ pc = "check"
    /\ ~EmptyResult(verts)
    /\ objects' = Append(objects, MeshObject(verts))
    /\ pc' = IF cfg.show_labels THEN "labels" ELSE "report"
    /\ UNCHANGED << file, cfg, io, handle, fieldnames, pos, line_num, verts,
                    skipped_lines, idx, report, result >>

\* line 32: the x rotation of a label
RotationX(vertical) == IF vertical THEN Fin(15708, 0 - 4) ELSE Fin(0, 0)

\* lines 20-36: the font object create_text_label links to the collection
TextLabel(text, location, size, vertical, align, offset_z) ==
    [type |-> "FONT", name |-> <<"Label_">> \o text, body |-> text,
     align_x |-> IF align \in {"CENTER", "LEFT", "RIGHT"} THEN align
                 ELSE "LEFT",
     rotation_x |-> RotationX(vertical),
     location |-> <<location[1], location[2],
                    FloatAdd(location[3], offset_z)>>,
     scale |-> <<size, size, size>>]

\* variant: the label text is the 0-based index
LabelFor_ZeroBased(i, vs, c) ==
    TextLabel(IntToStr(i), vs[i + 1], c.label_size,
              c.label_orientation = "VERTICAL", c.label_alignment,
              c.label_offset_z)

\* line 122: the label of the vertex at 0-based index i
LabelFor(i, vs, c) ==
    TextLabel(IntToStr(i + 1), vs[i + 1], c.label_size,
              c.label_orientation = "VERTICAL", c.label_alignment,
              c.label_offset_z)

\* one iteration of the loop of lines 121-122
CreateLabel ==
    /\ pc = "labels"
    /\ idx < Len(verts)
    /\ objects' = Append(objects, LabelFor(idx, verts, cfg))
    /\ idx' = idx + 1
    /\ UNCHANGED << file, cfg, pc, io, handle, fieldnames, pos, line_num,
                    verts, skipped_lines, report, result >>

\* lines 124-127
Finish ==
    /\ \/ pc = "report"
       \/ pc = "labels" /\ idx = Len(verts)
    /\ report' = [level |-> "INFO", msg |-> "Imported",
                  points |-> Len(verts),
                  total |-> Len(verts) + Len(skipped_lines),
                  skipped |-> skipped_lines]
    /\ result' = "FINISHED"
    /\ pc' = "done"
    /\ UNCHANGED << file, cfg, io, handle, fieldnames, pos, line_num, verts,
                    skipped_lines, objects, idx >>

Next ==
    \/ Open
    \/ OpenFail
    \/ ReadFail
    \/ NextRow
    \/ EndOfFile
    \/ NoValidPoints
    \/ CreateMesh
    \/ CreateLabel
    \/ Finish

Spec == Init /\ [][Next]_vars

TypeOK ==
    /\ pc \in {"start", "scan", "check", "labels", "report", "done"}
    /\ handle \in {"unopened", "open", "closed"}
    /\ pos \in 0..Len(file)
    /\ result \in {"none", "CANCELLED", "FINISHED"}

\* ------------------------------------------- reference reading of a file
\* What the file says, read off its lines directly: the header is the first
\* physical line, a data row is a later line that holds a record, and the
\* value of a sample field is tabulated by hand.

DataRows(f) == { i \in 2..Len(f) : f[i] # <<>> }

ColumnOf(f, name) == { j \in 1..Len(f[1]) : f[1][j] = name }

HasCell(f, i, name) == \E j \in ColumnOf(f, name) : j <= Len(f[i])

CellText(f, i, name) == f[i][CHOOSE j \in ColumnOf(f, name) : TRUE]

NumericText == { F_1_0, F_2_0, F_3_0, F_4, F_5sp, F_m6e1, F_inf, F_NaN,
                 F_1e999 }

ValueOf(t) ==
    CASE t = F_1_0   -> Fin(1, 0)
      [] t = F_2_0   -> Fin(2, 0)
      [] t = F_3_0   -> Fin(3, 0)
      [] t = F_4     -> Fin(4, 0)
      [] t = F_5sp   -> Fin(5, 0)
      [] t = F_m6e1  -> Fin(0 - 6, 0)
      [] t = F_inf   -> Inf(1)
      [] t = F_1e999 -> Inf(1)
      [] t = F_NaN   -> NaN

Columns(c) == << c.x_column_name, c.y_column_name, c.z_column_name >>

RowIsValid(f, i, c) ==
    \A k \in 1..3 : /\ HasCell(f, i, Columns(c)[k])
                    /\ CellText(f, i, Columns(c)[k]) \in NumericText

RowPoint(f, i, c) == [k \in 1..3 |-> ValueOf(CellText(f, i, Columns(c)[k]))]

\* the points of the valid data rows among lines 2..n, in file order
RECURSIVE PointsUpTo(_, _, _)
PointsUpTo(f, c, n) ==
    IF n < 2 THEN <<>>
    ELSE LET before == PointsUpTo(f, c, n - 1)
         IN  IF n \in DataRows(f) /\ RowIsValid(f, n, c)
             THEN Append(before, RowPoint(f, n, c)) ELSE before

\* the physical line numbers of the invalid data rows among lines 2..n
RECURSIVE InvalidUpTo(_, _, _)
InvalidUpTo(f, c, n) ==
    IF n < 2 THEN <<>>
    ELSE LET before == InvalidUpTo(f, c, n - 1)
         IN  IF n \in DataRows(f) /\ ~RowIsValid(f, n, c)
             THEN Append(before, n) ELSE before

ScanComplete == io = "ok" /\ pc \in {"check", "labels", "report", "done"}

\* ----------------------------------------------------------------- claims

\* C1: at every step the points plus the skipped line numbers count the data
\* rows read so far; after a complete scan they count all data rows of the
\* file, and the total of the final summary is that number.
C1_PointsPlusSkippedIsRows ==
    /\ Len(verts) + Len(skipped_lines)
         = Cardinality({ i \in DataRows(file) : i <= pos })
    /\ ScanComplete =>
         Len(verts) + Len(skipped_lines) = Cardinality(DataRows(file))
    /\ report.level = "INFO" => report.total = Cardinality(DataRows(file))

C1_Witness ==
    /\ result = "FINISHED"
    /\ report.total = 2
    /\ Len(verts) = 1
    /\ Len(skipped_lines) = 1
    /\ \E i \in 2..Len(file) : file[i] = BlankLine

\* C2: an iteration that reads a data row with an absent column, a missing,
\* blank or non-numeric value adds no point, appends the loop's line number
\* to skipped_lines and leaves the scan running.
C2_SkipAndContinue ==
    [][ ( /\ pc = "scan"
          /\ pos' # pos
          /\ pos' \in DataRows(file)
          /\ ~RowIsValid(file, pos', cfg)
          /\ io' = "ok" )
        => ( /\ verts' = verts
             /\ skipped_lines' = Append(skipped_lines, line_num)
             /\ pc' = "scan"
             /\ handle' = "open"
             /\ result' = "none" ) ]_vars

C2_Witness ==
    /\ result = "FINISHED"
    /\ file[2] = R_nonnum
    /\ file[3] = R_short
    /\ file[4] = R_valid
    /\ skipped_lines = <<2, 3>>
    /\ Len(verts) = 1

\* C3: every coordinate of every collected point is a finite number.
C3_OnlyFinitePoints ==
    \A i \in 1..Len(verts) : \A k \in 1..3 : IsFinite(verts[i][k])

\* C4: the points are, in file order, the values of the x, y and z columns
\* of exactly the data rows read so far whose three columns are present and
\* numeric; a complete scan has read every line.
C4_PointsInFileOrder ==
    /\ verts = PointsUpTo(file, cfg, pos)
    /\ ScanComplete => verts = PointsUpTo(file, cfg, Len(file))

C4_Witness ==
    /\ ScanComplete
    /\ file = <<H_rev, R_valid2, R_short, R_valid>>
    /\ verts = << <<Fin(0 - 6, 0), Fin(5, 0), Fin(4, 0)>>,
                  <<Fin(3, 0), Fin(2, 0), Fin(1, 0)>> >>

\* C5: the recorded skipped line numbers are the physical line numbers of
\* the skipped data rows.
C5_PhysicalLineNumbers == skipped_lines = InvalidUpTo(file, cfg, pos)

\* C6: skipped_lines is strictly increasing and every entry is at least 2.
C6_SkippedIncreasing ==
    /\ \A i \in 1..Len(skipped_lines) : skipped_lines[i] >= 2
    /\ \A i, j \in 1..Len(skipped_lines) :
         i < j => skipped_lines[i] < skipped_lines[j]

C6_Witness == pc = "scan" /\ Len(skipped_lines) = 3

IOFailure ==
    /\ result = "CANCELLED"
    /\ report.level = "ERROR"
    /\ report.msg = "Failed to read CSV"

NoValidPointsFailure ==
    /\ result = "CANCELLED"
    /\ report.level = "ERROR"
    /\ report.msg = "No valid points found in CSV."

Success == result = "FINISHED" /\ report.level = "INFO"

\* C7: execute() has returned exactly when it is done, and then: an open or
\* read failure gives IOFailure; a file read to the end with no valid data
\* row gives NoValidPointsFailure; a file read to the end with a valid data
\* row gives success.
C7_Outcome ==
    /\ (pc = "done") <=> (result # "none")
    /\ (pc = "done") <=> (report # NoReport)
    /\ pc = "done" =>
         /\ io # "ok" => IOFailure
         /\ io = "ok" => pos = Len(file) /\ handle = "closed"
         /\ io = "ok" /\ PointsUpTo(file, cfg, Len(file)) = <<>>
              => NoValidPointsFailure
         /\ io = "ok" /\ PointsUpTo(file, cfg, Len(file)) # <<>>
              => Success /\ verts # <<>>

C7_Witness ==
    /\ NoValidPointsFailure
    /\ cfg.x_column_name = "Easting"
    /\ file = <<H_std, R_valid, R_valid2>>
    /\ skipped_lines = <<2, 3>>

\* C8: no object exists before the scan has completed with at least one
\* point, and none exists when execute() returns CANCELLED.
C8_NoObjectsOnFailure ==
    /\ (pc \in {"start", "scan", "check"} \/ result = "CANCELLED")
         => objects = <<>>
    /\ objects # <<>> => io = "ok" /\ verts # <<>> /\ ScanComplete

C8_Witness ==
    /\ io = "read_failed"
    /\ IOFailure
    /\ Len(verts) = 2
    /\ objects = <<>>

\* value of a decimal digit string, by positional weight
RECURSIVE WeightedSum(_, _)
WeightedSum(s, n) ==
    IF n = 0 THEN 0
    ELSE DigitVal(s[n]) * Pow10(Len(s) - n) + WeightedSum(s, n - 1)

IsDecimalOf(s, n) ==
    /\ s # <<>>
    /\ \A k \in 1..Len(s) : IsDigit(s[k])
    /\ s[1] # "0"
    /\ WeightedSum(s, Len(s)) = n

\* a finite float in units of 10^-4
Scaled(v) == v.m * Pow10(v.e + 4)

IsRaisedBy(z1, z0, dz) ==
    IF IsFinite(z0) THEN IsFinite(z1) /\ Scaled(z1) = Scaled(z0) + Scaled(dz)
    ELSE z1 = z0

LabelsCreated == SelectSeq(objects, LAMBDA o : o.type = "FONT")

\* C9: the labels created so far are those of points 1..idx; the i-th has
\* the decimal string of i as body and sits at the i-th point raised by
\* label_offset_z; on success there is one label per point when show_labels
\* is set and none otherwise.
C9_LabelsMatchPoints ==
    /\ Len(LabelsCreated) = idx
    /\ \A i \in 1..Len(LabelsCreated) :
         /\ LabelsCreated[i] = objects[i + 1]
         /\ IsDecimalOf(LabelsCreated[i].body, i)
         /\ LabelsCreated[i].location[1] = verts[i][1]
         /\ LabelsCreated[i].location[2] = verts[i][2]
         /\ IsRaisedBy(LabelsCreated[i].location[3], verts[i][3],
                       cfg.label_offset_z)
    /\ result = "FINISHED" =>
         Len(LabelsCreated) = IF cfg.show_labels THEN Len(verts) ELSE 0

C9_Witness ==
    /\ result = "FINISHED"
    /\ cfg.show_labels
    /\ file[2] = R_emptyY
    /\ Len(verts) = 2
    /\ Len(LabelsCreated) = 2
    /\ LabelsCreated[2].body = <<"2">>

\* C10: once opened the file is closed before any object exists and before
\* execute() returns, and it is closed as soon as the scan is left.
C10_HandleClosed ==
    /\ (objects # <<>> \/ result # "none") => handle # "open"
    /\ pc # "scan" => handle # "open"
    /\ (pc \in {"check", "labels", "report"} \/ io = "read_failed")
         => handle = "closed"

C10_Witness ==
    /\ io = "read_failed"
    /\ result = "CANCELLED"
    /\ handle = "closed"
    /\ pos > 1

====
